---- MODULE Spec2Model ----
(***************************************************************************)
(* A model of rusty-dice (src/lib.rs): dice that are rolled against the    *)
(* thread-local random source, the constructors of range dice and face     *)
(* dice, the drivers roll and n_rolls, and coin_flip.                      *)
(*                                                                         *)
(* A call either returns a value, returns Err, or panics.  The outcome of  *)
(* a call is a record whose tag is "Ok", "Err" or "Panic".  The random     *)
(* source is nondeterministic: every draw picks any value the sampling     *)
(* primitive of the rand crate can return for its arguments, and the       *)
(* values drawn during a call are logged in rng.drawn in draw order.       *)
(***************************************************************************)
EXTENDS Integers, Sequences, FiniteSets

VARIABLES
    pc,     \* "idle" (between calls), "n_rolls" (inside the loop of n_rolls),
            \* "returned" (the caller holds the outcome) or "panicked"
    die,    \* the die the caller holds, NoDie before any construction
    made,   \* the constructor call that produced die: [by, arg]
    op,     \* the function called last
    arg,    \* the argument of a constructor call
    ret,    \* the outcome of the call: [tag, val] / [tag, msg]
    n,      \* n_rolls: the count argument
    acc,    \* n_rolls: the results collected so far
    rng     \* the random source during the call: [handles, drawn]

vars == <<pc, die, made, op, arg, ret, n, acc, rng>>

-----------------------------------------------------------------------------
(* Bounds of the model *)

\* n_sided is called with n in MinSides..MaxSides
MaxSides == 4
MinSides == 0 - MaxSides
\* n_rolls is called with a count in 0..MaxRolls
MaxRolls == 2
\* RangeDie::new is called with min, max in (0 - MaxBound)..MaxBound
MaxBound == 2

-----------------------------------------------------------------------------
(* Outcomes *)

Ok(v) == [tag |-> "Ok", val |-> v]
Err(m) == [tag |-> "Err", msg |-> m]
Panic(m) == [tag |-> "Panic", msg |-> m]

NoDie == [kind |-> "None", faces |-> <<>>]
NoCall == [by |-> "none", arg |-> 0]

-----------------------------------------------------------------------------
(* The sampling primitives of the rand crate, as the source uses them *)

\* Uniform::new_inclusive(low, high): asserts low <= high
Uniform_new_inclusive(low, high) ==
    IF low <= high
    THEN Ok([low |-> low, high |-> high])
    ELSE Panic("Uniform::new_inclusive called with low > high")

\* rng.sample(&uniform): any value of the closed interval
Uniform_sample(u) == u.low .. u.high

\* rng.gen_range(low, high): asserts low < high, samples the half-open [low, high)
gen_range(low, high) ==
    IF low < high
    THEN Ok(low .. (high - 1))
    ELSE Panic("Rng::gen_range called with low >= high")

\* v[i] on a Vec, indices from 0, bounds-checked
VecIndex(v, i) ==
    IF 0 <= i /\ i < Len(v)
    THEN Ok(v[i + 1])
    ELSE Panic("index out of bounds")

\* Result::unwrap
unwrap(r) ==
    IF r.tag = "Err"
    THEN Panic("called Result::unwrap() on an Err value")
    ELSE r

-----------------------------------------------------------------------------
(* Constructors *)

\* RangeDie::new(min, max) through the half-open Uniform::new(min, max)
RangeDie_new_exclusive(min, max) ==
    IF min < max
    THEN Ok([kind |-> "RangeDie", faces |-> [low |-> min, high |-> max - 1]])
    ELSE Panic("Uniform::new called with low >= high")

\* RangeDie::new(min, max) storing the bounds without validating them
RangeDie_new_unchecked(min, max) ==
    Ok([kind |-> "RangeDie", faces |-> [low |-> min, high |-> max]])

RangeDie_new(min, max) ==
    LET u == Uniform_new_inclusive(min, max)
    IN  IF u.tag = "Panic" THEN u
        ELSE Ok([kind |-> "RangeDie", faces |-> u.val])

\* n_sided whose guard lets zero through
n_sided_neg_only(k) ==
    IF k < 0
    THEN Err("Invalid number of sides for a die.")
    ELSE RangeDie_new(1, k)

n_sided(k) ==
    IF k < 1
    THEN Err("Invalid number of sides for a die.")
    ELSE RangeDie_new(1, k)

d100 == unwrap(n_sided(100))

\* d20 with a mistyped side count
d20_mistyped == unwrap(n_sided(21))

d20 == unwrap(n_sided(20))

d12 == unwrap(n_sided(12))

d10 == unwrap(n_sided(10))

d8 == unwrap(n_sided(8))

d6 == unwrap(n_sided(6))

d4 == unwrap(n_sided(4))

d2 == unwrap(n_sided(3))

GenericDie_new_from(iterator) ==
    Ok([kind |-> "GenericDie", faces |-> iterator])

\* The face sequences GenericDie::new_from is called with
FaceSeqs ==
    << <<>>,
       <<"a", "b", "c">>,
       <<2, 3, 3, 4, 4, 5>>,
       <<7>> >>

\* The fixed-size wrappers by name
Wrapper(name) ==
    CASE name = "d100" -> d100
      [] name = "d20" -> d20
      [] name = "d12" -> d12
      [] name = "d10" -> d10
      [] name = "d8" -> d8
      [] name = "d6" -> d6
      [] name = "d4" -> d4
      [] name = "d2" -> d2

WrapperNames == {"d100", "d20", "d12", "d10", "d8", "d6", "d4", "d2"}

-----------------------------------------------------------------------------
(* Rolling *)

\* A roll is modelled by its outcome for each value the source may produce:
\* Ok(f) with f a function from the value drawn to the outcome of the roll,
\* or a panic before anything is drawn.

\* RangeDie::roll: rng.sample(&self.faces)
RangeDie_roll(self) ==
    Ok([v \in Uniform_sample(self.faces) |-> Ok(v)])

\* GenericDie::roll drawing the index from the closed range [0, len]
GenericDie_roll_inclusive(self) ==
    Ok([i \in 0 .. Len(self.faces) |-> VecIndex(self.faces, i)])

\* GenericDie::roll answering a default value when there is no face
GenericDie_roll_or_default(self) ==
    IF Len(self.faces) = 0
    THEN Ok([i \in {0} |-> Ok(0)])
    ELSE Ok([i \in 0 .. (Len(self.faces) - 1) |-> Ok(self.faces[i + 1])])

\* GenericDie::roll: an index from gen_range(0, len), then a clone of that face
GenericDie_roll(self) ==
    LET g == gen_range(0, Len(self.faces))
    IN  IF g.tag = "Panic" THEN g
        ELSE Ok([i \in g.val |-> VecIndex(self.faces, i)])

\* RollableDie::roll, by the type of the die
Roll(d) ==
    IF d.kind = "RangeDie" THEN RangeDie_roll(d) ELSE GenericDie_roll(d)

\* thread_rng(): a handle on the thread-local source, nothing drawn yet
thread_rng == [handles |-> 1, drawn |-> <<>>]

\* (0..n) visited once more than it should be
range_len_inclusive(lo, hi) == IF hi >= lo THEN hi - lo + 1 ELSE 0

\* the number of items of the iterator (lo..hi)
range_len(lo, hi) == IF hi > lo THEN hi - lo ELSE 0

\* collect pushing each item to the front
collect_front(v, x) == <<x>> \o v

\* collect: the items in iteration order
collect(v, x) == Append(v, x)

\* coin_flip: the match on the value drawn
CoinFace(v) ==
    CASE v = 0 -> Ok("Heads")
      [] v = 1 -> Ok("Tails")
      [] OTHER -> Panic("internal error: entered unreachable code")

\* coin_flip drawing from 1..2
coin_flip_from_one ==
    LET g == gen_range(1, 3)
    IN  IF g.tag = "Panic" THEN g ELSE Ok([v \in g.val |-> CoinFace(v)])

\* coin_flip: match thread_rng().gen_range(0, 2)
coin_flip ==
    LET g == gen_range(0, 2)
    IN  IF g.tag = "Panic" THEN g ELSE Ok([v \in g.val |-> CoinFace(v)])

-----------------------------------------------------------------------------
(* The state machine *)

Init ==
    /\ pc = "idle"
    /\ die = NoDie
    /\ made = NoCall
    /\ op = "none"
    /\ arg = 0
    /\ ret = Ok(<<>>)
    /\ n = 0
    /\ acc = <<>>
    /\ rng = [handles |-> 0, drawn |-> <<>>]

\* A constructor call by, with argument arg, ended with outcome r
Constructed(by, a, r) ==
    /\ op' = by
    /\ arg' = a
    /\ ret' = r
    /\ made' = IF r.tag = "Ok" THEN [by |-> by, arg |-> a] ELSE NoCall
    /\ die' = IF r.tag = "Ok" THEN r.val ELSE NoDie
    /\ pc' = IF r.tag = "Panic" THEN "panicked" ELSE "returned"
    /\ n' = 0
    /\ acc' = <<>>
    /\ rng' = [handles |-> 0, drawn |-> <<>>]

Call_n_sided ==
    /\ pc = "idle"
    /\ \E k \in MinSides .. MaxSides : Constructed("n_sided", k, n_sided(k))

Call_wrapper ==
    /\ pc = "idle"
    /\ \E name \in WrapperNames : Constructed(name, 0, Wrapper(name))

Call_new_from ==
    /\ pc = "idle"
    /\ \E f \in 1 .. Len(FaceSeqs) :
          Constructed("new_from", f, GenericDie_new_from(FaceSeqs[f]))

Call_RangeDie_new ==
    /\ pc = "idle"
    /\ \E min \in (0 - MaxBound) .. MaxBound, max \in (0 - MaxBound) .. MaxBound :
          Constructed("RangeDie::new", <<min, max>>, RangeDie_new(min, max))

\* roll(&d): one roll on a fresh handle of the thread-local source
Call_roll ==
    /\ pc = "idle"
    /\ die # NoDie
    /\ op' = "roll"
    /\ n' = 0
    /\ acc' = <<>>
    /\ UNCHANGED <<die, made, arg>>
    /\ LET g == Roll(die)
       IN  IF g.tag = "Panic"
           THEN /\ ret' = g
                /\ rng' = thread_rng
                /\ pc' = "panicked"
           ELSE \E raw \in DOMAIN g.val :
                   /\ ret' = g.val[raw]
                   /\ rng' = [thread_rng EXCEPT !.drawn = <<raw>>]
                   /\ pc' = IF g.val[raw].tag = "Panic" THEN "panicked" ELSE "returned"

\* n_rolls(n, &d): the handle is taken, the iterator is built
NRollsBegin ==
    /\ pc = "idle"
    /\ die # NoDie
    /\ \E k \in 0 .. MaxRolls : n' = k
    /\ op' = "n_rolls"
    /\ ret' = Ok(<<>>)
    /\ acc' = <<>>
    /\ rng' = thread_rng
    /\ pc' = "n_rolls"
    /\ UNCHANGED <<die, made, arg>>

\* n_rolls: one item of (0..n).map(|_| d.roll(&mut rng))
NRollsStep ==
    /\ pc = "n_rolls"
    /\ Len(acc) < range_len(0, n)
    /\ UNCHANGED <<die, made, op, arg, n>>
    /\ LET g == Roll(die)
       IN  IF g.tag = "Panic"
           THEN /\ ret' = g
                /\ pc' = "panicked"
                /\ UNCHANGED <<acc, rng>>
           ELSE \E raw \in DOMAIN g.val :
                   LET r == g.val[raw]
                   IN  /\ rng' = [rng EXCEPT !.drawn = Append(@, raw)]
                       /\ IF r.tag = "Panic"
                          THEN /\ ret' = r
                               /\ pc' = "panicked"
                               /\ acc' = acc
                          ELSE /\ acc' = collect(acc, r.val)
                               /\ UNCHANGED <<ret, pc>>

\* n_rolls: the iterator is exhausted, the Vec is returned
NRollsCollect ==
    /\ pc = "n_rolls"
    /\ Len(acc) >= range_len(0, n)
    /\ ret' = Ok(acc)
    /\ pc' = "returned"
    /\ UNCHANGED <<die, made, op, arg, n, acc, rng>>

\* The caller is done with the outcome of the call; it keeps the die
Release ==
    /\ pc = "returned"
    /\ pc' = "idle"
    /\ op' = "none"
    /\ ret' = Ok(<<>>)
    /\ n' = 0
    /\ acc' = <<>>
    /\ rng' = [handles |-> 0, drawn |-> <<>>]
    /\ UNCHANGED <<die, made, arg>>

Call_coin_flip ==
    /\ pc = "idle"
    /\ op' = "coin_flip"
    /\ n' = 0
    /\ acc' = <<>>
    /\ UNCHANGED <<die, made, arg>>
    /\ LET g == coin_flip
       IN  IF g.tag = "Panic"
           THEN /\ ret' = g
                /\ rng' = thread_rng
                /\ pc' = "panicked"
           ELSE \E v \in DOMAIN g.val :
                   /\ ret' = g.val[v]
                   /\ rng' = [thread_rng EXCEPT !.drawn = <<v>>]
                   /\ pc' = IF g.val[v].tag = "Panic" THEN "panicked" ELSE "returned"

Next ==
    \/ Call_n_sided
    \/ Call_wrapper
    \/ Call_new_from
    \/ Call_RangeDie_new
    \/ Call_roll
    \/ NRollsBegin
    \/ NRollsStep
    \/ NRollsCollect
    \/ Call_coin_flip
    \/ Release

Spec == Init /\ [][Next]_vars

-----------------------------------------------------------------------------
(* Vocabulary of the properties *)

\* The values rolled by the call in progress or just returned
Rolled ==
    IF op = "roll" /\ pc = "returned" THEN {ret.val}
    ELSE IF op = "n_rolls" THEN {acc[i] : i \in 1 .. Len(acc)}
    ELSE {}

Rolling == op \in {"roll", "n_rolls"}

\* The die is the range die over exactly lo..hi: every roll of it is the value
\* the source draws, and the source draws exactly the values lo..hi
RollsExactly(d, lo, hi) ==
    /\ d.kind = "RangeDie"
    /\ Roll(d).tag = "Ok"
    /\ DOMAIN Roll(d).val = lo .. hi
    /\ \A v \in DOMAIN Roll(d).val : Roll(d).val[v] = Ok(v)

\* The die is the range die over lo..hi; checked in full where a constructor
\* has just returned it, and by its stored bounds while it is held
RangeOver(d, lo, hi) ==
    /\ d = [kind |-> "RangeDie", faces |-> [low |-> lo, high |-> hi]]
    /\ (op = made.by => RollsExactly(d, lo, hi))

RECURSIVE SeqSum(_)
SeqSum(q) == IF q = <<>> THEN 0 ELSE Head(q) + SeqSum(Tail(q))

\* The side count each fixed-size wrapper promises by its name
FixedSides ==
    [d4 |-> 4, d6 |-> 6, d8 |-> 8, d10 |-> 10, d12 |-> 12, d20 |-> 20, d100 |-> 100]

FixedNames == DOMAIN FixedSides

-----------------------------------------------------------------------------
(* Properties *)

\* C1: for every n >= 1, n_sided(n) returns Ok with a die whose possible roll
\* results are exactly 1..n (so 1 and n are both possible), no roll of it
\* panics, and every value rolled lies in 1..n.
C1_NSidedRollsInRange ==
    /\ (op = "n_sided" /\ arg >= 1) =>
          /\ pc = "returned"
          /\ ret.tag = "Ok"
          /\ made = [by |-> "n_sided", arg |-> arg]
    /\ made.by = "n_sided" =>
          /\ made.arg >= 1
          /\ RangeOver(die, 1, made.arg)
          /\ (Rolling => pc # "panicked")
          /\ \A v \in Rolled : 1 <= v /\ v <= made.arg

\* C1 witness: n_rolls on the die of n_sided(MaxSides) returned both 1 and MaxSides
C1_Witness ==
    /\ made.by = "n_sided"
    /\ made.arg = MaxSides
    /\ op = "n_rolls"
    /\ pc = "returned"
    /\ 1 \in Rolled
    /\ MaxSides \in Rolled

\* C2: for every n <= 0, n_sided(n) returns Err with a non-empty message,
\* constructs no die and does not panic.
C2_NSidedRejectsNonPositive ==
    (op = "n_sided" /\ arg <= 0) =>
        /\ pc = "returned"
        /\ ret.tag = "Err"
        /\ ret.msg # ""
        /\ die = NoDie
        /\ made = NoCall

\* C2 witness: n_sided of a negative count has returned Err; so has n_sided(0)
C2_Witness ==
    /\ op = "n_sided"
    /\ arg = MinSides
    /\ pc = "returned"
    /\ ret.tag = "Err"

\* A die on which a roll is defined
ValidDie(d) == d.kind = "RangeDie" \/ (d.kind = "GenericDie" /\ Len(d.faces) > 0)

\* C3: n_rolls(k, die) on a valid die never panics and returns a sequence of
\* exactly k values; for k = 0 (any die) it is empty and nothing is drawn.
C3_NRollsLength ==
    op = "n_rolls" =>
        /\ ValidDie(die) => pc # "panicked"
        /\ Len(acc) <= n
        /\ pc = "returned" =>
              /\ ret.tag = "Ok"
              /\ Len(ret.val) = n
              /\ (n = 0 => ret.val = <<>> /\ rng.drawn = <<>>)

\* C3 witness: n_rolls(MaxRolls, die) has returned MaxRolls values
C3_Witness ==
    /\ op = "n_rolls"
    /\ pc = "returned"
    /\ n = MaxRolls
    /\ n > 0
    /\ Len(ret.val) = n

\* C4: every roll of the die returned by d2() is 1 or 2.
C4_D2RollsOneOrTwo ==
    made.by = "d2" => \A v \in Rolled : v \in {1, 2}

\* C5: each of d4, d6, d8, d10, d12, d20, d100 returns (no panic from unwrap)
\* a die whose possible roll results are exactly 1..N, and the results of
\* n_rolls(k, d20()) sum to at least k.
C5_FixedWrappers ==
    /\ op \in FixedNames => pc = "returned" /\ ret.tag = "Ok" /\ made.by = op
    /\ made.by \in FixedNames =>
          /\ RangeOver(die, 1, FixedSides[made.by])
          /\ (Rolling => pc # "panicked")
          /\ \A v \in Rolled : 1 <= v /\ v <= FixedSides[made.by]
    /\ (made.by = "d20" /\ op = "n_rolls" /\ pc = "returned") =>
          SeqSum(ret.val) >= n

\* C5 witness: n_rolls(MaxRolls, d20()) has returned with a 20 among the results
C5_Witness ==
    /\ made.by = "d20"
    /\ op = "n_rolls"
    /\ pc = "returned"
    /\ n = MaxRolls
    /\ 20 \in Rolled

\* The number of positions of face sequence f holding the value x
Multiplicity(f, x) == Cardinality({j \in 1 .. Len(f) : f[j] = x})

\* C6: a GenericDie over a non-empty face sequence f of length L draws an
\* index from exactly 0..L-1, a roll never panics and returns f at the index
\* drawn, and the number of indices yielding a value is its multiplicity in f.
C6_GenericDieRollsAFace ==
    (made.by = "new_from" /\ Len(die.faces) > 0) =>
        LET f == die.faces
            L == Len(die.faces)
            r == Roll(die)
        IN  /\ r.tag = "Ok"
            /\ DOMAIN r.val = 0 .. (L - 1)
            /\ \A i \in DOMAIN r.val : r.val[i] = Ok(f[i + 1])
            /\ \A j \in 1 .. L :
                  Cardinality({i \in DOMAIN r.val : r.val[i] = Ok(f[j])}) = Multiplicity(f, f[j])
            /\ (Rolling => pc # "panicked")
            /\ (op = "roll" /\ pc = "returned") =>
                  /\ rng.drawn[1] \in 0 .. (L - 1)
                  /\ ret = Ok(f[rng.drawn[1] + 1])
            /\ op = "n_rolls" =>
                  /\ Len(acc) = Len(rng.drawn)
                  /\ \A k \in 1 .. Len(acc) :
                        /\ rng.drawn[k] \in 0 .. (L - 1)
                        /\ acc[k] = f[rng.drawn[k] + 1]

\* C6 witness: on the averaging die [2,3,3,4,4,5] the first and the last index
\* were drawn and yielded the faces 2 and 5
C6_Witness ==
    /\ made.by = "new_from"
    /\ made.arg = 3
    /\ Multiplicity(die.faces, 3) = 2
    /\ op = "n_rolls"
    /\ pc = "returned"
    /\ rng.drawn = <<0, 5>>
    /\ ret.val = <<2, 5>>

\* C7: rolling a GenericDie with no faces panics; no value is ever returned
\* or collected from it.
C7_EmptyDieFailsFast ==
    (made.by = "new_from" /\ Len(die.faces) = 0) =>
        /\ op = "roll" => pc = "panicked" /\ ret.tag = "Panic"
        /\ op = "n_rolls" =>
              /\ acc = <<>>
              /\ (n > 0 => pc \in {"n_rolls", "panicked"})
              /\ (pc = "panicked" => ret.tag = "Panic")

\* C7 witness: roll on the empty die has panicked
C7_Witness ==
    /\ made.by = "new_from"
    /\ die.faces = <<>>
    /\ op = "roll"
    /\ pc = "panicked"

\* C8: coin_flip draws 0 or 1, never reaches the unreachable arm, returns
\* Heads or Tails, and both are possible.
C8_CoinFlipHeadsOrTails ==
    /\ coin_flip.tag = "Ok"
    /\ \A v \in DOMAIN coin_flip.val : v \in {0, 1} /\ coin_flip.val[v].tag = "Ok"
    /\ {coin_flip.val[v].val : v \in DOMAIN coin_flip.val} = {"Heads", "Tails"}
    /\ op = "coin_flip" =>
          /\ pc = "returned"
          /\ rng.drawn \in {<<0>>, <<1>>}
          /\ ret \in {Ok("Heads"), Ok("Tails")}

\* C8 witness: a coin_flip that drew 1 returned Tails
C8_Witness ==
    /\ op = "coin_flip"
    /\ pc = "returned"
    /\ rng.drawn = <<1>>
    /\ ret = Ok("Tails")

\* C9, in every state of an n_rolls call: one handle on the source, and the
\* k-th result is the roll for the k-th value the source produced; at the
\* return exactly n values were drawn and the results are returned in order
C9_State ==
    op = "n_rolls" =>
        /\ rng.handles = 1
        /\ pc # "panicked" =>
              /\ Len(acc) = Len(rng.drawn)
              /\ \A k \in 1 .. Len(acc) : Ok(acc[k]) = Roll(die).val[rng.drawn[k]]
        /\ pc = "returned" =>
              /\ Len(rng.drawn) = n
              /\ ret = Ok(acc)

\* C9, in every step of an n_rolls call: the die and the handle are kept, and
\* what the source has produced is only ever extended, by at most one value
C9_Step ==
    (pc = "n_rolls") =>
        /\ die' = die
        /\ rng'.handles = rng.handles
        /\ Len(rng'.drawn) \in {Len(rng.drawn), Len(rng.drawn) + 1}
        /\ SubSeq(rng'.drawn, 1, Len(rng.drawn)) = rng.drawn

\* C9: n_rolls takes the random source once, rolls exactly n times on it
\* without resetting it, returns the results in the order generated, and
\* leaves the die unchanged.
C9_NRollsOrder == [](C9_State) /\ [][C9_Step]_vars

\* C9 witness: n_rolls on the die ['a','b','c'] drew index 2 then index 0 and
\* returned <<'c','a'>>
C9_Witness ==
    /\ made.by = "new_from"
    /\ made.arg = 2
    /\ op = "n_rolls"
    /\ pc = "returned"
    /\ rng.drawn = <<2, 0>>
    /\ ret.val = <<"c", "a">>

\* C10: RangeDie::new(min, max) with min > max panics and leaves no die; no
\* RangeDie with min > max exists; for min <= max the possible roll results
\* are exactly min..max and every value rolled lies in it.
C10_RangeDieNewGuarded ==
    /\ (op = "RangeDie::new" /\ arg[1] > arg[2]) =>
          /\ pc = "panicked"
          /\ ret.tag = "Panic"
          /\ die = NoDie
    /\ die.kind = "RangeDie" => die.faces.low <= die.faces.high
    /\ made.by = "RangeDie::new" =>
          /\ made.arg[1] <= made.arg[2]
          /\ RangeOver(die, made.arg[1], made.arg[2])
          /\ (Rolling => pc # "panicked")
          /\ \A v \in Rolled : made.arg[1] <= v /\ v <= made.arg[2]

\* C10 witness: RangeDie::new(MaxBound, -MaxBound) has panicked
C10_Witness ==
    /\ op = "RangeDie::new"
    /\ arg = <<MaxBound, 0 - MaxBound>>
    /\ MaxBound > 0
    /\ pc = "panicked"

====
